---------------------------- MODULE Spec2Model ----------------------------
(***************************************************************************)
(* Model of src/main.js: the four-screen session (intro, diagnostic,       *)
(* construction, activation), the ChoiceSet held in `state`, the layer     *)
(* state updateShieldVisuals leaves in the three.js scene, and the sigil   *)
(* polyline generateSigil draws.                                           *)
(*                                                                         *)
(* Conventions.                                                            *)
(*  - A JavaScript value that may be null is a sequence: <<>> is null and  *)
(*    <<v>> is the value v.                                                *)
(*  - Fractions are integers scaled by 100: opacity 0.2 is 20, emissive    *)
(*    intensity 0.5 is 50, the radius factor 0.95 is 95.                   *)
(*  - A string typed into the sigil input is a sequence of UTF-16 code     *)
(*    units (integers), which is what split('') and charCodeAt(0) see.     *)
(*  - A point of the sigil is kept in polar form: angle = (i/n)*2*pi is    *)
(*    the pair <<i, n>>, radius is the factor of (width/2 - 10) in         *)
(*    hundredths.  x and y are cos/sin of these and carry nothing more.    *)
(*  - Handlers run to completion one at a time (browser event loop), so    *)
(*    each handler is one action.  A click reaches a control only while    *)
(*    the screen holding it is the active one and the control is not       *)
(*    disabled.                                                            *)
(*  - Not modelled: sound playback (no state), the animate() frame loop    *)
(*    (it writes only rotations and the aura opacity), handleResize, and   *)
(*    typing into the sigil input box apart from the click that reads it:  *)
(*    the text is drawn at the generate click and kept as read there.      *)
(***************************************************************************)
EXTENDS Integers, Sequences, FiniteSets, TLC

VARIABLES
    currentScreen,   \* state.currentScreen
    energyType,      \* state.energyType
    shield,          \* state.shield       [color, symbol, sigil]
    choicesMade,     \* state.choicesMade  [color, symbol, sigil]
    activeScreen,    \* id of the .screen element carrying class 'active'
    activateDisabled,\* #activate-shield-btn .disabled
    finalEnergyText, \* #final-energy-type .textContent
    selected,        \* elements carrying class 'selected' [color, symbol]
    shieldMaterial,  \* shieldSphere.material [color, emissive, emissiveIntensity, opacity, map]
    auraIntensity,   \* aura.material.emissiveIntensity
    symbolObjects,   \* the symbolObjects array
    sceneSprites,    \* number of symbol sprites that are children of scene
    sigilCanvas,     \* what is drawn on #sigil-canvas [points, closed]
    sigilInput,      \* #sigil-input .value as the last generate click read it
    occurred         \* history since the last restart: which choice events happened
                     \* [color, symbol, sigil] and how many answer selections [answers]

vars == << currentScreen, energyType, shield, choicesMade, activeScreen,
           activateDisabled, finalEnergyText, selected, shieldMaterial,
           auraIntensity, symbolObjects, sceneSprites, sigilCanvas, sigilInput,
           occurred >>

----------------------------------------------------------------------------
(* Bounds of the model *)

MaxLen == 3

(* Values the inputs are drawn from *)

\* data-type of the answer buttons
EnergyTypes == {"typeA", "typeB"}

\* data-color of the swatches after parseInt: RGB values, black included
SwatchColors == {0, 255}

\* data-symbol of the symbol options: image identifiers
SymbolIds == {"sym1", "sym2"}

\* code units a sigil text is made of: 'h' (104), 'R' (82), ' ' (32), U+00DF (223)
Alphabet == {104, 82, 32, 223}

RECURSIVE WordsOfLen(_)
WordsOfLen(n) ==
    IF n = 0 THEN {<<>>}
    ELSE {Append(w, c) : w \in WordsOfLen(n - 1), c \in Alphabet}

Words == UNION {WordsOfLen(n) : n \in 0..MaxLen}

----------------------------------------------------------------------------
(* JavaScript values *)

Null == <<>>

Some(v) == <<v>>

\* if (x) for a number or null: null, 0 (and NaN) are falsy
TruthyNumber(x) == x # Null /\ x[1] # 0

\* if (x) for a string or null: null and '' are falsy
TruthyString(x) == x # Null /\ x[1] # ""

\* if (x) for an object or null
TruthyObject(x) == x # Null

\* a % b of JavaScript: the result takes the sign of the dividend
JsRem(a, b) == IF a >= 0 THEN a % b ELSE -((-a) % b)

Max(a, b) == IF a >= b THEN a ELSE b

\* white space as String.prototype.trim sees it (those of the code units in range)
IsWhiteSpace(c) == c \in {9, 10, 11, 12, 13, 32, 160}

RECURSIVE TrimLeft(_)
TrimLeft(w) ==
    IF w = <<>> THEN <<>>
    ELSE IF IsWhiteSpace(Head(w)) THEN TrimLeft(Tail(w)) ELSE w

RECURSIVE TrimRight(_)
TrimRight(w) ==
    IF w = <<>> THEN <<>>
    ELSE IF IsWhiteSpace(w[Len(w)]) THEN TrimRight(SubSeq(w, 1, Len(w) - 1)) ELSE w

\* word.trim()
Trim(w) == TrimRight(TrimLeft(w))

\* toUpperCase of one code unit: a-z map to A-Z, U+00DF expands to "SS"
UpperOfUnit(c) ==
    IF c >= 97 /\ c <= 122 THEN << c - 32 >>
    ELSE IF c = 223 THEN << 83, 83 >>
    ELSE << c >>

RECURSIVE ToUpperCase(_)
\* word.toUpperCase()
ToUpperCase(w) ==
    IF w = <<>> THEN <<>> ELSE UpperOfUnit(Head(w)) \o ToUpperCase(Tail(w))

----------------------------------------------------------------------------
(* Initial state *)

InitialShield == [color |-> Null, symbol |-> Null, sigil |-> Null]

InitialChoicesMade == [color |-> FALSE, symbol |-> FALSE, sigil |-> FALSE]

White == 16777215

\* emissiveIntensity of a material whose constructor is not given one
DefaultEmissiveIntensity == 100

\* new THREE.MeshPhongMaterial({color: 0xffffff, transparent: true, opacity: 0, ...})
InitialShieldMaterial ==
    [color |-> White, emissive |-> 0,
     emissiveIntensity |-> DefaultEmissiveIntensity, opacity |-> 0, map |-> Null]

BlankCanvas == [points |-> <<>>, closed |-> FALSE]

\* history: no choice event and no answer selection yet
NothingOccurred == [color |-> FALSE, symbol |-> FALSE, sigil |-> FALSE, answers |-> 0]

\* the disabled attribute #activate-shield-btn carries in the page markup
ActivateBtnInitiallyDisabled == TRUE

Init ==
    /\ currentScreen = "intro"
    /\ energyType = Null
    /\ shield = InitialShield
    /\ choicesMade = InitialChoicesMade
    /\ activeScreen = "intro-screen"
    /\ activateDisabled = ActivateBtnInitiallyDisabled
    /\ finalEnergyText = ""
    /\ selected = [color |-> Null, symbol |-> Null]
    /\ shieldMaterial = InitialShieldMaterial
    /\ auraIntensity = 0
    /\ symbolObjects = <<>>
    /\ sceneSprites = 0
    /\ sigilCanvas = BlankCanvas
    /\ sigilInput = <<>>
    /\ occurred = NothingOccurred


----------------------------------------------------------------------------
(* UI navigation *)

\* switchScreen(screenId): every .screen loses 'active', screenId gains it
switchScreen(screenId) == screenId

\* faulty variant: the screens switched away from stay active, so their
\* controls still take clicks
OnScreen_Always(screenId) == TRUE

\* a click reaches a control only while the screen that holds it is active
OnScreen(screenId) == activeScreen = screenId

----------------------------------------------------------------------------
(* Shield construction logic *)

\* updateShieldVisuals, "Color" block
ColorStep(sh, mat) ==
    IF TruthyNumber(sh.color)
    THEN [mat EXCEPT !.color = sh.color[1],
                     !.emissive = sh.color[1],
                     !.emissiveIntensity = 50,
                     !.opacity = 20]
    ELSE mat

\* faulty variant of the "Symbol" block: the previous markers are kept
SymbolStep_Appends(sh, markers) ==
    IF TruthyString(sh.symbol)
    THEN LET fresh == [i \in 1..3 |-> [symbol |-> sh.symbol[1], angle |-> <<i - 1, 3>>]]
         IN  [objects |-> markers.objects \o fresh,
              sprites |-> markers.sprites + Len(fresh)]
    ELSE markers

\* updateShieldVisuals, "Symbol" block, on [objects: symbolObjects, sprites: sceneSprites]
SymbolStep(sh, markers) ==
    IF TruthyString(sh.symbol)
    THEN LET removed == markers.sprites - Len(markers.objects)
             fresh == [i \in 1..3 |-> [symbol |-> sh.symbol[1], angle |-> <<i - 1, 3>>]]
         IN  [objects |-> fresh, sprites |-> removed + Len(fresh)]
    ELSE markers

\* faulty variant of the "Sigil" block: the floor is added to the opacity
SigilStep_AddsOpacity(sh, mat) ==
    IF TruthyObject(sh.sigil)
    THEN [mat EXCEPT !.map = Some([image |-> sh.sigil[1], repeat |-> <<3, 2>>]),
                     !.opacity = @ + 30]
    ELSE mat

\* faulty variant of the "Sigil" block: the opacity is set to the floor
SigilStep_SetsFloor(sh, mat) ==
    IF TruthyObject(sh.sigil)
    THEN [mat EXCEPT !.map = Some([image |-> sh.sigil[1], repeat |-> <<3, 2>>]),
                     !.opacity = 30]
    ELSE mat

\* updateShieldVisuals, "Sigil" block
SigilStep(sh, mat) ==
    IF TruthyObject(sh.sigil)
    THEN [mat EXCEPT !.map = Some([image |-> sh.sigil[1], repeat |-> <<3, 2>>]),
                     !.opacity = Max(@, 30)]
    ELSE mat

\* updateShieldVisuals(): the three blocks in order, on the scene's layer state
updateShieldVisuals(sh, layer) ==
    [material |-> SigilStep(sh, ColorStep(sh, layer.material)),
     markers  |-> SymbolStep(sh, layer.markers)]

\* the layer state of the current state, as updateShieldVisuals reads and writes it
Layer ==
    [material |-> shieldMaterial,
     markers  |-> [objects |-> symbolObjects, sprites |-> sceneSprites]]

\* faulty variant of checkConstructionComplete: the sigil flag is not read
checkConstructionComplete_IgnoresSigil(cm) ==
    IF cm.color /\ cm.symbol THEN FALSE ELSE TRUE

\* checkConstructionComplete(): the value it leaves in activateBtn.disabled
checkConstructionComplete(cm) ==
    IF cm.color /\ cm.symbol /\ cm.sigil THEN FALSE ELSE TRUE

----------------------------------------------------------------------------
(* Sigil generation *)

\* faulty variant of the blank test: only the empty string is blank
IsBlank_NoTrim(word) == word = <<>>

\* if (!word || word.trim() === '') return;
IsBlank(word) == word = <<>> \/ Trim(word) = <<>>

\* faulty variant of the point list: the text is trimmed before it is split
SigilPoints_Trimmed(word) ==
    LET chars == ToUpperCase(Trim(word))
        n == Len(chars)
    IN  [i \in 1..n |->
            LET charCode == chars[i] - 65
            IN  [angle  |-> <<i - 1, n>>,
                 radius |-> JsRem(charCode, 10) * 5 + 50]]

\* chars.map(...): one point per element of word.toUpperCase().split('')
SigilPoints(word) ==
    LET chars == ToUpperCase(word)
        n == Len(chars)
    IN  [i \in 1..n |->
            LET charCode == chars[i] - 65
            IN  [angle  |-> <<i - 1, n>>,
                 radius |-> JsRem(charCode, 10) * 5 + 50]]

\* the path stroked on the canvas: moveTo, lineTo..., closePath when > 2 points
SigilPath(word) ==
    LET points == SigilPoints(word)
    IN  [points |-> points, closed |-> Len(points) > 2]

\* history only: the submitted text has a character that is not white space
NonBlankText(word) == \E i \in 1..Len(word) : ~IsWhiteSpace(word[i])

----------------------------------------------------------------------------
(* Event handlers *)

\* #start-diagnostic-btn click
StartDiagnosticClick ==
    /\ OnScreen("intro-screen")
    /\ activeScreen' = switchScreen("diagnostic-screen")
    /\ auraIntensity' = 50
    /\ UNCHANGED << currentScreen, energyType, shield, choicesMade, activateDisabled,
                    finalEnergyText, selected, shieldMaterial, symbolObjects,
                    sceneSprites, sigilCanvas, sigilInput, occurred >>

\* faulty variant of the answer handler: it runs on whatever screen is active
AnswerClick_AnyScreen(type) ==
    /\ energyType' = Some(type)
    /\ finalEnergyText' = type
    /\ activeScreen' = "construction-screen"
    /\ occurred' = [occurred EXCEPT !.answers = @ + 1]
    /\ UNCHANGED << currentScreen, shield, choicesMade, activateDisabled, selected,
                    shieldMaterial, auraIntensity, symbolObjects, sceneSprites,
                    sigilCanvas, sigilInput >>

\* faulty variant of the answer handler: the screen is not switched
AnswerClick_NoSwitch(type) ==
    /\ activeScreen = "diagnostic-screen"
    /\ energyType' = Some(type)
    /\ finalEnergyText' = type
    /\ occurred' = [occurred EXCEPT !.answers = @ + 1]
    /\ UNCHANGED << currentScreen, shield, choicesMade, activateDisabled, selected,
                    shieldMaterial, auraIntensity, symbolObjects, sceneSprites,
                    sigilCanvas, sigilInput, activeScreen >>

\* faulty variant of the answer handler: it switches to the activation screen
AnswerClick_ToActivation(type) ==
    /\ activeScreen = "diagnostic-screen"
    /\ energyType' = Some(type)
    /\ finalEnergyText' = type
    /\ activeScreen' = "activation-screen"
    /\ occurred' = [occurred EXCEPT !.answers = @ + 1]
    /\ UNCHANGED << currentScreen, shield, choicesMade, activateDisabled, selected,
                    shieldMaterial, auraIntensity, symbolObjects, sceneSprites,
                    sigilCanvas, sigilInput >>

\* .answer-btn click, type = e.target.dataset.type
AnswerClick(type) ==
    /\ OnScreen("diagnostic-screen")
    /\ energyType' = Some(type)
    /\ finalEnergyText' = type
    /\ activeScreen' = switchScreen("construction-screen")
    /\ occurred' = [occurred EXCEPT !.answers = @ + 1]
    /\ UNCHANGED << currentScreen, shield, choicesMade, activateDisabled, selected,
                    shieldMaterial, auraIntensity, symbolObjects, sceneSprites,
                    sigilCanvas, sigilInput >>

\* the tail every construction handler shares: updateShieldVisuals(); checkConstructionComplete();
Refresh(sh, cm) ==
    LET layer == updateShieldVisuals(sh, Layer)
    IN  /\ shieldMaterial' = layer.material
        /\ symbolObjects' = layer.markers.objects
        /\ sceneSprites' = layer.markers.sprites
        /\ activateDisabled' = checkConstructionComplete(cm)

\* .color-swatch click, color = parseInt(e.target.dataset.color)
ColorClick(color) ==
    /\ OnScreen("construction-screen")
    /\ selected' = [selected EXCEPT !.color = Some(color)]
    /\ shield' = [shield EXCEPT !.color = Some(color)]
    /\ choicesMade' = [choicesMade EXCEPT !.color = TRUE]
    /\ Refresh(shield', choicesMade')
    /\ occurred' = [occurred EXCEPT !.color = TRUE]
    /\ UNCHANGED << currentScreen, energyType, activeScreen, finalEnergyText,
                    auraIntensity, sigilCanvas, sigilInput >>

\* faulty variant of the symbol handler: the completion flag is not set
SymbolClick_NoFlag(symbol) ==
    /\ activeScreen = "construction-screen"
    /\ selected' = [selected EXCEPT !.symbol = Some(symbol)]
    /\ shield' = [shield EXCEPT !.symbol = Some(symbol)]
    /\ Refresh(shield', choicesMade)
    /\ occurred' = [occurred EXCEPT !.symbol = TRUE]
    /\ UNCHANGED << currentScreen, energyType, activeScreen, finalEnergyText,
                    auraIntensity, sigilCanvas, sigilInput, choicesMade >>

\* .symbol-option click, symbol = e.target.dataset.symbol
SymbolClick(symbol) ==
    /\ OnScreen("construction-screen")
    /\ selected' = [selected EXCEPT !.symbol = Some(symbol)]
    /\ shield' = [shield EXCEPT !.symbol = Some(symbol)]
    /\ choicesMade' = [choicesMade EXCEPT !.symbol = TRUE]
    /\ Refresh(shield', choicesMade')
    /\ occurred' = [occurred EXCEPT !.symbol = TRUE]
    /\ UNCHANGED << currentScreen, energyType, activeScreen, finalEnergyText,
                    auraIntensity, sigilCanvas, sigilInput >>

\* faulty variant of generateSigil: a blank text also drops the stored sigil
GenerateSigilClick_BlankClears(word) ==
    /\ activeScreen = "construction-screen"
    /\ sigilInput' = word
    /\ occurred' = [occurred EXCEPT !.sigil = @ \/ NonBlankText(word)]
    /\ IF IsBlank(word)
       THEN /\ sigilCanvas' = BlankCanvas
            /\ shield' = [shield EXCEPT !.sigil = Null]
            /\ choicesMade' = [choicesMade EXCEPT !.sigil = FALSE]
            /\ Refresh(shield', choicesMade')
       ELSE /\ sigilCanvas' = SigilPath(word)
            /\ shield' = [shield EXCEPT !.sigil = Some("sigil-canvas")]
            /\ choicesMade' = [choicesMade EXCEPT !.sigil = TRUE]
            /\ Refresh(shield', choicesMade')
    /\ UNCHANGED << currentScreen, energyType, activeScreen, finalEnergyText,
                    selected, auraIntensity >>

\* #generate-sigil-btn click: generateSigil(word), word = #sigil-input .value
GenerateSigilClick(word) ==
    /\ OnScreen("construction-screen")
    /\ sigilInput' = word
    /\ occurred' = [occurred EXCEPT !.sigil = @ \/ NonBlankText(word)]
    /\ IF IsBlank(word)
       THEN /\ sigilCanvas' = BlankCanvas
            /\ UNCHANGED << shield, choicesMade, shieldMaterial, symbolObjects,
                            sceneSprites, activateDisabled >>
       ELSE /\ sigilCanvas' = SigilPath(word)
            /\ shield' = [shield EXCEPT !.sigil = Some("sigil-canvas")]
            /\ choicesMade' = [choicesMade EXCEPT !.sigil = TRUE]
            /\ Refresh(shield', choicesMade')
    /\ UNCHANGED << currentScreen, energyType, activeScreen, finalEnergyText,
                    selected, auraIntensity >>

\* #activate-shield-btn click; a disabled button dispatches no click
ActivateClick ==
    /\ OnScreen("construction-screen")
    /\ IF activateDisabled
       THEN UNCHANGED << activeScreen, shieldMaterial, auraIntensity >>
       ELSE /\ activeScreen' = switchScreen("activation-screen")
            /\ shieldMaterial' = [shieldMaterial EXCEPT !.opacity = 70]
            /\ auraIntensity' = 100
    /\ UNCHANGED << currentScreen, energyType, shield, choicesMade, activateDisabled,
                    finalEnergyText, selected, symbolObjects, sceneSprites,
                    sigilCanvas, sigilInput, occurred >>

\* faulty variant of the restart handler: the activate button is not disabled
RestartClick_LeavesButton ==
    /\ activeScreen = "activation-screen"
    /\ energyType' = Null
    /\ shield' = [color |-> Null, symbol |-> Null, sigil |-> Null]
    /\ choicesMade' = [color |-> FALSE, symbol |-> FALSE, sigil |-> FALSE]
    /\ shieldMaterial' = [shieldMaterial EXCEPT !.opacity = 0, !.map = Null]
    /\ auraIntensity' = 0
    /\ sceneSprites' = sceneSprites - Len(symbolObjects)
    /\ symbolObjects' = <<>>
    /\ selected' = [color |-> Null, symbol |-> Null]
    /\ sigilInput' = <<>>
    /\ sigilCanvas' = BlankCanvas
    /\ activeScreen' = "intro-screen"
    /\ occurred' = NothingOccurred
    /\ UNCHANGED << currentScreen, finalEnergyText, activateDisabled >>

\* faulty variant of the restart handler: state.shield is not reset
RestartClick_KeepsShield ==
    /\ activeScreen = "activation-screen"
    /\ energyType' = Null
    /\ choicesMade' = [color |-> FALSE, symbol |-> FALSE, sigil |-> FALSE]
    /\ shieldMaterial' = [shieldMaterial EXCEPT !.opacity = 0, !.map = Null]
    /\ auraIntensity' = 0
    /\ sceneSprites' = sceneSprites - Len(symbolObjects)
    /\ symbolObjects' = <<>>
    /\ selected' = [color |-> Null, symbol |-> Null]
    /\ sigilInput' = <<>>
    /\ sigilCanvas' = BlankCanvas
    /\ activateDisabled' = TRUE
    /\ activeScreen' = "intro-screen"
    /\ occurred' = NothingOccurred
    /\ UNCHANGED << currentScreen, shield, finalEnergyText >>

\* #restart-btn click
RestartClick ==
    /\ OnScreen("activation-screen")
    /\ energyType' = Null
    /\ shield' = [color |-> Null, symbol |-> Null, sigil |-> Null]
    /\ choicesMade' = [color |-> FALSE, symbol |-> FALSE, sigil |-> FALSE]
    /\ shieldMaterial' = [shieldMaterial EXCEPT !.opacity = 0, !.map = Null]
    /\ auraIntensity' = 0
    /\ sceneSprites' = sceneSprites - Len(symbolObjects)
    /\ symbolObjects' = <<>>
    /\ selected' = [color |-> Null, symbol |-> Null]
    /\ sigilInput' = <<>>
    /\ sigilCanvas' = BlankCanvas
    /\ activateDisabled' = TRUE
    /\ activeScreen' = switchScreen("intro-screen")
    /\ occurred' = NothingOccurred
    /\ UNCHANGED << currentScreen, finalEnergyText >>

Next ==
    \/ StartDiagnosticClick
    \/ \E type \in EnergyTypes : AnswerClick(type)
    \/ \E color \in SwatchColors : ColorClick(color)
    \/ \E symbol \in SymbolIds : SymbolClick(symbol)
    \/ \E word \in Words : GenerateSigilClick(word)
    \/ ActivateClick
    \/ RestartClick

Spec == Init /\ [][Next]_vars

----------------------------------------------------------------------------
(* Shape of the state *)

Optional(S) == {Null} \cup {Some(v) : v \in S}

TypeOK ==
    /\ currentScreen \in {"intro", "diagnostic", "construction", "activation"}
    /\ energyType \in Optional(EnergyTypes)
    /\ shield.color \in Optional(SwatchColors)
    /\ shield.symbol \in Optional(SymbolIds)
    /\ shield.sigil \in Optional({"sigil-canvas"})
    /\ choicesMade \in [{"color", "symbol", "sigil"} -> BOOLEAN]
    /\ activeScreen \in {"intro-screen", "diagnostic-screen",
                         "construction-screen", "activation-screen"}
    /\ activateDisabled \in BOOLEAN
    /\ shieldMaterial.opacity \in {0, 20, 30, 70}
    /\ sceneSprites \in 0..3
    /\ Len(sigilCanvas.points) <= 2 * MaxLen
    /\ sigilInput \in Words

----------------------------------------------------------------------------
(* Properties *)

AllChoicesMade == choicesMade.color /\ choicesMade.symbol /\ choicesMade.sigil

\* C1: the stage changes to Activation only from Construction and only with
\* all three completion flags true; an activate request made in Construction
\* while a flag is false changes nothing and the stage stays Construction.
C1_ActivateOnlyWhenComplete ==
    [][ /\ (activeScreen' = "activation-screen" /\ activeScreen # "activation-screen")
              => (activeScreen = "construction-screen" /\ AllChoicesMade)
        /\ (activeScreen = "construction-screen" /\ ~AllChoicesMade)
              => /\ activeScreen' = "construction-screen"
                 /\ ActivateClick => UNCHANGED vars
      ]_vars

\* C1 witness: an activation has happened, from a complete construction
C1_Witness ==
    /\ activeScreen = "activation-screen"
    /\ AllChoicesMade
    /\ shieldMaterial.opacity = 70

\* C2: a blank or whitespace-only sigil submission leaves the sigil completion
\* flag false after the submission, whatever was submitted before it.
C2_BlankLeavesSigilFlagFalse ==
    [][ \A word \in Words :
            (GenerateSigilClick(word) /\ ~NonBlankText(word)) => ~choicesMade'.sigil
      ]_vars

\* C2 witness: a blank submission (the canvas is cleared) made after a
\* non-blank one (the sigil is stored)
C2_Witness ==
    /\ activeScreen = "construction-screen"
    /\ shield.sigil # Null
    /\ sigilCanvas = BlankCanvas

Cleared ==
    /\ energyType = Null
    /\ shield = [color |-> Null, symbol |-> Null, sigil |-> Null]
    /\ choicesMade = [color |-> FALSE, symbol |-> FALSE, sigil |-> FALSE]

\* C3: the restart handler, run from Activation, yields in one step stage Intro
\* with energyType, the three shield values and the three flags all cleared;
\* no state between events has only some of them cleared: whenever energyType
\* is null or the stage is Intro or Diagnostic, all of them are cleared.
C3_RestartClearsAtOnce ==
    /\ [][ (RestartClick \/ (activeScreen = "activation-screen"
                               /\ activeScreen' # "activation-screen"))
             => (activeScreen' = "intro-screen" /\ Cleared') ]_vars
    /\ [](  (energyType = Null
              \/ activeScreen \in {"intro-screen", "diagnostic-screen"}) => Cleared )

\* C3 witness: the state a restart leaves (the energy label of the finished
\* session is still on the page)
C3_Witness ==
    /\ activeScreen = "intro-screen"
    /\ finalEnergyText # ""
    /\ Cleared

StageEdges ==
    { <<"intro-screen", "diagnostic-screen">>,
      <<"diagnostic-screen", "construction-screen">>,
      <<"construction-screen", "activation-screen">>,
      <<"activation-screen", "intro-screen">> }

\* C4: every change of stage is one of the four edges Intro->Diagnostic,
\* Diagnostic->Construction, Construction->Activation, Activation->Intro.
C4_StageEdges ==
    [][ activeScreen' # activeScreen => <<activeScreen, activeScreen'>> \in StageEdges ]_vars

\* C4 witness: all four edges taken, the fourth session step after a restart
\* (the energy label of the finished session is still on the page)
C4_Witness ==
    /\ activeScreen = "diagnostic-screen"
    /\ finalEnergyText # ""
    /\ auraIntensity = 50

\* C5: the construction is complete (all three flags true and the activate
\* control enabled) iff a color pick, a symbol pick and a non-blank sigil
\* submission have each occurred since the last restart.
C5_CompleteIffAllOccurred ==
    (AllChoicesMade /\ ~activateDisabled)
        <=> (occurred.color /\ occurred.symbol /\ occurred.sigil)

\* C5 witness: a complete construction, the button enabled
C5_Witness ==
    /\ activeScreen = "construction-screen"
    /\ AllChoicesMade
    /\ ~activateDisabled

\* C6: for every color a swatch can carry, black included, the color pick
\* handler leaves tint = the color, glow 0.5 and opacity 0.2 (0.3 with a sigil).
C6_ColorPickSetsBaseLayer ==
    [][ \A color \in SwatchColors :
            ColorClick(color) =>
                /\ shieldMaterial'.color = color
                /\ shieldMaterial'.emissiveIntensity = 50
                /\ shieldMaterial'.opacity = IF shield'.sigil # Null THEN 30 ELSE 20
      ]_vars

\* C6 witness: black was picked
C6_Witness ==
    /\ activeScreen = "construction-screen"
    /\ shield.color = Some(0)
    /\ choicesMade.color

\* the layer state of a scene nothing has been chosen in
NeutralLayer ==
    [material |-> InitialShieldMaterial,
     markers  |-> [objects |-> <<>>, sprites |-> 0]]

\* C7: in Construction the layer state is a function of the ChoiceSet alone.
\* The function is fixed by the histories of a first session that pick each
\* choice once: it is updateShieldVisuals applied to the untouched scene.
C7_LayerIsFunctionOfChoiceSet ==
    activeScreen = "construction-screen"
        => Layer = updateShieldVisuals(shield, NeutralLayer)

\* C7 witness: Construction entered again after an activation and a restart,
\* nothing chosen yet
C7_Witness ==
    /\ activeScreen = "construction-screen"
    /\ shield = [color |-> Null, symbol |-> Null, sigil |-> Null]
    /\ shieldMaterial.color # White

\* C8: whenever a sigil is present the base opacity is at least 0.3; the sigil
\* step raises an opacity below 0.3 to 0.3 and leaves one at or above 0.3 as
\* it is, on every material state the program reaches (color before or after
\* the sigil, and the 0.7 of an activated shield).
C8_OpacityFloor ==
    /\ shield.sigil # Null => shieldMaterial.opacity >= 30
    /\ LET withSigil == [shield EXCEPT !.sigil = Some("sigil-canvas")]
           after == SigilStep(withSigil, shieldMaterial).opacity
       IN  /\ after >= 30
           /\ shieldMaterial.opacity < 30 => after = 30
           /\ shieldMaterial.opacity >= 30 => after = shieldMaterial.opacity

\* C8 witness: sigil and color both chosen, the floor applied over the color's 0.2
C8_Witness ==
    /\ activeScreen = "construction-screen"
    /\ shield.sigil # Null
    /\ TruthyNumber(shield.color)
    /\ shieldMaterial.opacity = 30

\* C9: the scene holds exactly 3 symbol markers, all of the chosen symbol, when
\* a symbol is present and none when it is absent; symbolObjects lists exactly
\* the markers in the scene.
C9_MarkerSet ==
    /\ sceneSprites = Len(symbolObjects)
    /\ IF shield.symbol # Null
       THEN /\ sceneSprites = 3
            /\ \A i \in 1..Len(symbolObjects) : symbolObjects[i].symbol = shield.symbol[1]
       ELSE sceneSprites = 0

\* C9 witness: a symbol is present and the visuals were refreshed for the
\* other two choices as well
C9_Witness ==
    /\ activeScreen = "construction-screen"
    /\ shield.symbol = Some("sym2")
    /\ shield.color # Null
    /\ shield.sigil # Null
    /\ sceneSprites = 3

\* C10 as stated: for every non-blank text submitted, the sigil has one point
\* per character of the untrimmed input, point i of n at angle (i/n)*2*pi with
\* n the number of input characters, and the path is closed iff the input has
\* more than two characters.
C10_OnePointPerInputCharacter ==
    NonBlankText(sigilInput) =>
        LET n == Len(sigilInput)
            points == sigilCanvas.points
        IN  /\ Len(points) = n
            /\ \A i \in 1..Len(points) : points[i].angle = <<i - 1, n>>
            /\ sigilCanvas.closed <=> (n > 2)

\* the code units of word that toUpperCase expands to more than one
Expanding(word) == {i \in 1..Len(word) : Len(UpperOfUnit(word[i])) > 1}

\* C10 amended: for every non-blank text submitted, the sigil has one point per
\* UTF-16 code unit of the uppercased untrimmed input: as many points as input
\* characters when no character expands under toUpperCase, more otherwise
\* (U+00DF gives two); white space inside or around the text gets its point;
\* point i of the n points is at angle (i/n)*2*pi; the path is closed iff n > 2.
C10_OnePointPerUppercasedUnit ==
    NonBlankText(sigilInput) =>
        LET points == sigilCanvas.points
            n == Len(points)
        IN  /\ n = Len(sigilInput) + Cardinality(Expanding(sigilInput))
            /\ \A i \in 1..n : points[i].angle = <<i - 1, n>>
            /\ sigilCanvas.closed <=> (n > 2)

\* C10 witness: a three-point closed sigil drawn from a text with white space
\* around it
C10_Witness ==
    /\ activeScreen = "construction-screen"
    /\ sigilInput = <<32, 104, 32>>
    /\ Len(sigilCanvas.points) = 3
    /\ sigilCanvas.closed

\* C11: two characters of a submitted text whose derived values (code of the
\* uppercased character minus 65) differ by a multiple of 10 get the same
\* radius, negative derived values included, and every radius is between 0.5
\* and 0.95 of (half canvas width minus 10).
C11_RadiusBands ==
    NonBlankText(sigilInput) =>
        LET chars == ToUpperCase(sigilInput)
            points == sigilCanvas.points
        IN  /\ \A i \in 1..Len(points) :
                   points[i].radius >= 50 /\ points[i].radius <= 95
            /\ \A i, j \in 1..Len(points) :
                   ((chars[i] - 65) - (chars[j] - 65)) % 10 = 0
                       => points[i].radius = points[j].radius

\* C11 witness: a text with a space (derived value -33) and 'h' (derived value
\* 7, 40 more) has been drawn
C11_Witness ==
    /\ activeScreen = "construction-screen"
    /\ sigilInput = <<32, 104>>
    /\ Len(sigilCanvas.points) = 2

\* C12: for each of color, symbol and sigil, the completion flag is true iff
\* the value in state.shield is non-null.
C12_FlagIffValue ==
    /\ choicesMade.color <=> shield.color # Null
    /\ choicesMade.symbol <=> shield.symbol # Null
    /\ choicesMade.sigil <=> shield.sigil # Null

\* C12 witness: some choices made and some not, black among them (0 is a
\* value, not null)
C12_Witness ==
    /\ activeScreen = "construction-screen"
    /\ shield.color = Some(0)
    /\ shield.symbol # Null
    /\ shield.sigil = Null

\* C13: energyType changes only by an answer selection made on the diagnostic
\* screen, which sets it from null, and by the restart handler, which clears
\* it; no other event, on any screen, changes it.
C13_EnergyTypeSetOnce ==
    [][ energyType' # energyType =>
            \/ /\ activeScreen = "diagnostic-screen"
               /\ energyType = Null
               /\ \E type \in EnergyTypes : AnswerClick(type)
            \/ /\ RestartClick
               /\ energyType' = Null
      ]_vars

\* C13 witness: the energy type chosen in Diagnostic is still there after
\* color, symbol and sigil events and the activation
C13_Witness ==
    /\ activeScreen = "activation-screen"
    /\ energyType = Some("typeB")
    /\ occurred.color /\ occurred.symbol /\ occurred.sigil

\* C14: updateShieldVisuals is idempotent: run on the layer state it has just
\* left, with the same ChoiceSet, it leaves that layer state (tint, glow,
\* opacity, texture and tiling, markers).
C14_UpdateIdempotent ==
    LET once == updateShieldVisuals(shield, Layer)
    IN  updateShieldVisuals(shield, once) = once

\* C14 witness: all three choices present, and the layer the last refresh
\* left is the one another refresh leaves
C14_Witness ==
    /\ activeScreen = "construction-screen"
    /\ TruthyNumber(shield.color)
    /\ shield.symbol # Null
    /\ shield.sigil # Null
    /\ updateShieldVisuals(shield, Layer) = Layer

\* C15: the activate handler, and every event processed while the stage is
\* Activation other than restart, leave energyType, the three shield values
\* and the three completion flags unchanged.
C15_ActivationReadsOnly ==
    [][ (ActivateClick \/ (activeScreen = "activation-screen" /\ ~RestartClick))
            => UNCHANGED << energyType, shield, choicesMade >>
      ]_vars

\* C15 witness: the activate handler has run
C15_Witness ==
    /\ activeScreen = "activation-screen"
    /\ auraIntensity = 100
    /\ energyType # Null

\* the stage state.currentScreen names, as the id of its screen element
ScreenOf(stage) ==
    CASE stage = "intro" -> "intro-screen"
      [] stage = "diagnostic" -> "diagnostic-screen"
      [] stage = "construction" -> "construction-screen"
      [] stage = "activation" -> "activation-screen"

\* C16: state.currentScreen names the stage whose screen is active.
C16_CurrentScreenTracksStage ==
    ScreenOf(currentScreen) = activeScreen

\* C16 witness: a screen switch has happened
C16_Witness ==
    /\ activeScreen = "diagnostic-screen"
    /\ currentScreen = "intro"

\* C17: the activate button is enabled iff all three completion flags are
\* true, and the restart handler leaves the button disabled and the flags
\* false.
C17_ButtonIffComplete ==
    /\ [](~activateDisabled <=> AllChoicesMade)
    /\ [][RestartClick => (activateDisabled' /\ ~AllChoicesMade')]_vars

\* C17 witness: the state a restart leaves after a session whose button was
\* enabled
C17_Witness ==
    /\ activeScreen = "intro-screen"
    /\ finalEnergyText # ""
    /\ activateDisabled
    /\ ~AllChoicesMade

\* C18: until restart the completion flags are monotone: no event makes a true
\* flag false, a blank sigil submission included, and an enabled activate
\* button stays enabled.
C18_FlagsMonotone ==
    [][ ~RestartClick =>
            /\ choicesMade.color => choicesMade'.color
            /\ choicesMade.symbol => choicesMade'.symbol
            /\ choicesMade.sigil => choicesMade'.sigil
            /\ ~activateDisabled => ~activateDisabled'
      ]_vars

\* C18 witness: a blank submission after the construction was complete: the
\* canvas is blank, the flag still true and the button still enabled
C18_Witness ==
    /\ activeScreen = "construction-screen"
    /\ sigilCanvas = BlankCanvas
    /\ choicesMade.sigil
    /\ ~activateDisabled

\* C19: on the intro and diagnostic screens energyType and the shield values
\* are null and the flags false; on the construction and activation screens
\* energyType has been set by exactly one answer selection since the last
\* restart.
C19_StageAndEnergy ==
    /\ activeScreen \in {"intro-screen", "diagnostic-screen"}
          => (Cleared /\ occurred.answers = 0)
    /\ activeScreen \in {"construction-screen", "activation-screen"}
          => (energyType # Null /\ occurred.answers = 1)

\* C19 witness: the construction screen of a second session, its energy type
\* chosen
C19_Witness ==
    /\ activeScreen = "construction-screen"
    /\ occurred.answers = 1
    /\ shieldMaterial.color = 255
    /\ shield.color = Null

============================================================================
